---- MODULE Spec2Model ----
(***************************************************************************)
(* Model of chrome/browser/plugins/plugin_info_message_filter.cc:          *)
(* PluginInfoMessageFilter answers ChromeViewHostMsg_GetPluginInfo by      *)
(* asking the PluginService for the plugin list (asynchronously, through a *)
(* callback bound to a weak pointer), choosing a plugin for the requested  *)
(* MIME type (FindEnabledPlugin) and deciding its status                   *)
(* (DecidePluginStatus); and answers                                       *)
(* ChromeViewHostMsg_IsInternalPluginAvailableForMimeType synchronously.   *)
(***************************************************************************)
EXTENDS Integers, Sequences, FiniteSets, TLC

(***************************************************************************)
(* Bounds of the model.                                                    *)
(***************************************************************************)
\* most plugins registered with the PluginService
MaxPlugins == 2
\* most GetPluginInfo requests one filter receives
MaxRequests == 2
\* most built-in (internal) plugins
MaxInternal == 2
\* most lines the diagnostic log file holds
MaxLogLines == 8

(***************************************************************************)
(* ChromeViewHostMsg_GetPluginInfo_Status values the file uses.            *)
(***************************************************************************)
kAllowed == "kAllowed"
kDisabled == "kDisabled"
kNotFound == "kNotFound"
kNPAPINotSupported == "kNPAPINotSupported"
kUnauthorized == "kUnauthorized"

PLUGIN_TYPE_NPAPI == "PLUGIN_TYPE_NPAPI"
PLUGIN_TYPE_PEPPER_OUT_OF_PROCESS == "PLUGIN_TYPE_PEPPER_OUT_OF_PROCESS"

\* the MIME types of plugins known to have PPAPI versions
kPepperPluginMimeTypes ==
    { "application/pdf",
      "application/x-google-chrome-pdf",
      "application/x-nacl",
      "application/x-pnacl",
      "application/vnd.chromium.remoting-viewer",
      "application/x-shockwave-flash",
      "application/futuresplash" }

(***************************************************************************)
(* Values the environment is drawn from.                                   *)
(***************************************************************************)
\* content::WebPluginMimeType
MimeInfo(m, names, values) ==
    [mime_type |-> m, additional_param_names |-> names,
     additional_param_values |-> values]

\* content::WebPluginInfo
PluginInfo(p, t, ms) == [path |-> p, type |-> t, mime_types |-> ms]

\* a default-constructed WebPluginInfo (empty path, type NPAPI): the
\* |plugin| of an output nothing was written to
NoPlugin == PluginInfo("", PLUGIN_TYPE_NPAPI, << >>)

\* the plugins the PluginService may have registered
PluginPool ==
    { PluginInfo("pdf.plugin", PLUGIN_TYPE_PEPPER_OUT_OF_PROCESS,
                 << MimeInfo("application/pdf", << >>, << >>) >>),
      PluginInfo("any.plugin", PLUGIN_TYPE_NPAPI,
                 << MimeInfo("*", << >>, << >>) >>),
      PluginInfo("media.plugin", PLUGIN_TYPE_NPAPI,
                 << MimeInfo("video/mp4", << >>, << >>),
                    MimeInfo("application/pdf", << >>, << >>) >>) }

\* the built-in plugins GetInternalPlugins may return
InternalPool ==
    { PluginInfo("cdm.plugin", PLUGIN_TYPE_PEPPER_OUT_OF_PROCESS,
                 << MimeInfo("application/x-ppapi-cdm", << "codecs" >>,
                             << "vp8" >>),
                    MimeInfo("application/pdf", << >>, << >>) >>),
      PluginInfo("pdf.plugin", PLUGIN_TYPE_PEPPER_OUT_OF_PROCESS,
                 << MimeInfo("application/pdf", << "zoom" >>, << "1" >>) >>),
      PluginInfo("bare.plugin", PLUGIN_TYPE_PEPPER_OUT_OF_PROCESS, << >>) }

\* the MIME types a renderer asks about
RequestedMimeTypes == { "application/pdf", "video/mp4" }
InternalMimeTypes == { "application/pdf", "application/x-ppapi-cdm", "text/plain" }

\* the value of GetFilter() when no PluginServiceFilter is installed
NoFilter == [installed |-> FALSE, available |-> { }]

\* sequences of at most n distinct elements of S
DistinctSeqs(S, n) ==
    { s \in UNION { [1..k -> S] : k \in 0..n } :
        \A i, j \in 1..Len(s) : i # j => s[i] # s[j] }

Paths(ps) == { ps[i].path : i \in 1..Len(ps) }

VARIABLES
    plugins,          \* PluginService: the registered plugins, in enumeration order
    filter,           \* PluginService::GetFilter(): none installed, or the paths it lets through
    unstable,         \* PluginService::IsPluginUnstable: the paths crashing too much
    is_guest,         \* WebViewRendererState::IsGuest(render_process_id_)
    npapi_supported,  \* PluginService::NPAPIPluginsSupported()
    requests,         \* GetPluginInfo_Params of the requests received, by arrival
    callbacks,        \* requests whose PluginsLoaded callback the PluginService holds
    invalidated,      \* callbacks whose weak pointer InvalidateWeakPtrs invalidated
    destructed,       \* OnDestruct has run
    sent,             \* per request, the replies passed to Send()
    internal_plugins, \* PluginService::GetInternalPlugins
    internal_reply,   \* outputs of the last IsInternalPluginAvailableForMimeType
    log_lines         \* lines in ../electron_OnIsInternalPluginAvailableForMimeType.log

envVars == << plugins, filter, unstable, is_guest, npapi_supported >>
filterVars == << requests, callbacks, invalidated, destructed, sent >>
internalVars == << internal_plugins, internal_reply, log_lines >>
vars == << envVars, filterVars, internalVars >>

(***************************************************************************)
(* PluginService::GetPluginInfoArray: the plugins declaring the MIME type, *)
(* exactly or through a wildcard association, in enumeration order, each   *)
(* with the declared MIME type that matched.                               *)
(***************************************************************************)
MatchesMimeType(pattern, mime_type) == pattern = "*" \/ pattern = mime_type

\* the index of the first association of |plugin| matching, 0 when none does
RECURSIVE SupportsTypeFrom(_, _, _, _)
SupportsTypeFrom(plugin, mime_type, allow_wildcard, j) ==
    IF j > Len(plugin.mime_types) THEN 0
    ELSE IF /\ MatchesMimeType(plugin.mime_types[j].mime_type, mime_type)
            /\ (allow_wildcard \/ plugin.mime_types[j].mime_type # "*")
         THEN j
         ELSE SupportsTypeFrom(plugin, mime_type, allow_wildcard, j + 1)

RECURSIVE GetPluginInfoArrayFrom(_, _, _, _)
GetPluginInfoArrayFrom(ps, mime_type, allow_wildcard, i) ==
    IF i > Len(ps) THEN [matching_plugins |-> << >>, mime_types |-> << >>]
    ELSE LET rest == GetPluginInfoArrayFrom(ps, mime_type, allow_wildcard, i + 1)
             j == SupportsTypeFrom(ps[i], mime_type, allow_wildcard, 1)
         IN  IF j = 0 THEN rest
             ELSE [matching_plugins |-> << ps[i] >> \o rest.matching_plugins,
                   mime_types |-> << ps[i].mime_types[j].mime_type >>
                                      \o rest.mime_types]

GetPluginInfoArray(mime_type, allow_wildcard) ==
    GetPluginInfoArrayFrom(plugins, mime_type, allow_wildcard, 1)

\* PluginServiceFilter::IsPluginAvailable for this filter's render process
IsPluginAvailable(plugin) == plugin.path \in filter.available

\* PluginService::IsPluginUnstable
IsPluginUnstable(path) == path \in unstable

\* WebViewRendererState::IsGuest(render_process_id_)
IsGuest == is_guest

(***************************************************************************)
(* Context::FindEnabledPlugin: writes |status|, |plugin| and               *)
(* |actual_mime_type| of |out| and returns whether an enabled plugin was   *)
(* found.                                                                  *)
(***************************************************************************)
\* the loop over matching_plugins: the value of i when the loop ends
RECURSIVE FirstAvailableFrom(_, _)
FirstAvailableFrom(matching_plugins, i) ==
    IF i > Len(matching_plugins) THEN i
    ELSE IF ~filter.installed \/ IsPluginAvailable(matching_plugins[i])
         THEN i
         ELSE FirstAvailableFrom(matching_plugins, i + 1)

\* variant: the early return on a Pepper MIME type reports kNPAPINotSupported
FindEnabledPlugin_EmptyAsNPAPI(mime_type, out) ==
    IF ~npapi_supported /\ mime_type \in kPepperPluginMimeTypes
    THEN [ret |-> FALSE, out |-> [out EXCEPT !.status = kNPAPINotSupported]]
    ELSE [ret |-> FALSE, out |-> [out EXCEPT !.status = kNotFound]]

\* the branch taken when nothing matches, as built for OS_WIN or OS_MACOSX:
\* kNotFound is set first, and both the early return inside the loop over
\* kPepperPluginMimeTypes and the return after it leave it
FindEnabledPlugin_Empty(mime_type, out) ==
    LET found == [out EXCEPT !.status = kNotFound]
    IN  IF ~npapi_supported /\ mime_type \in kPepperPluginMimeTypes
        THEN [ret |-> FALSE, out |-> found]
        ELSE [ret |-> FALSE, out |-> found]

\* variant: falls back to the last matching plugin
FindEnabledPlugin_ChooseLast(found, out) ==
    LET i0 == FirstAvailableFrom(found.matching_plugins, 1)
        enabled == i0 <= Len(found.matching_plugins)
        i == IF enabled THEN i0 ELSE Len(found.matching_plugins)
    IN  [ret |-> enabled,
         out |-> [status |-> IF enabled THEN out.status ELSE kDisabled,
                  plugin |-> found.matching_plugins[i],
                  actual_mime_type |-> found.mime_types[i]]]

\* variant: reads the plugin and its MIME type at index 0 whatever i is
FindEnabledPlugin_ChooseFirstAlways(found, out) ==
    LET i0 == FirstAvailableFrom(found.matching_plugins, 1)
        enabled == i0 <= Len(found.matching_plugins)
    IN  [ret |-> enabled,
         out |-> [status |-> IF enabled THEN out.status ELSE kDisabled,
                  plugin |-> found.matching_plugins[1],
                  actual_mime_type |-> found.mime_types[1]]]

\* variant: the fallback does not set kDisabled
FindEnabledPlugin_ChooseNoDisabled(found, out) ==
    LET i0 == FirstAvailableFrom(found.matching_plugins, 1)
        enabled == i0 <= Len(found.matching_plugins)
        i == IF enabled THEN i0 ELSE 1
    IN  [ret |-> enabled,
         out |-> [status |-> out.status,
                  plugin |-> found.matching_plugins[i],
                  actual_mime_type |-> found.mime_types[i]]]

\* the choice among the matching plugins: the first available one, else
\* the first one with status kDisabled (indices are 1-based here)
FindEnabledPlugin_Choose(found, out) ==
    LET i0 == FirstAvailableFrom(found.matching_plugins, 1)
        enabled == i0 <= Len(found.matching_plugins)
        i == IF enabled THEN i0 ELSE 1
    IN  [ret |-> enabled,
         out |-> [status |-> IF enabled THEN out.status ELSE kDisabled,
                  plugin |-> found.matching_plugins[i],
                  actual_mime_type |-> found.mime_types[i]]]

FindEnabledPlugin(mime_type, out) ==
    LET start == [out EXCEPT !.status = kAllowed]
        allow_wildcard == TRUE
        found == GetPluginInfoArray(mime_type, allow_wildcard)
    IN  IF found.matching_plugins = << >>
        THEN FindEnabledPlugin_Empty(mime_type, start)
        ELSE FindEnabledPlugin_Choose(found, start)

(***************************************************************************)
(* Context::DecidePluginStatus: the status after the checks on the chosen  *)
(* plugin.                                                                 *)
(***************************************************************************)
\* variant: without the guest check on an allowed plugin
DecidePluginStatus_NoGuestCheck(plugin, status) ==
    IF plugin.type = PLUGIN_TYPE_NPAPI /\ IsGuest THEN kNPAPINotSupported
    ELSE IF IsPluginUnstable(plugin.path) THEN kUnauthorized
    ELSE status

\* variant: without the IsPluginUnstable check
DecidePluginStatus_NoUnstableCheck(plugin, status) ==
    IF plugin.type = PLUGIN_TYPE_NPAPI /\ IsGuest THEN kNPAPINotSupported
    ELSE IF status = kAllowed /\ IsGuest THEN kUnauthorized
    ELSE status

\* variant: the IsPluginUnstable check runs before the NPAPI check
DecidePluginStatus_UnstableFirst(plugin, status) ==
    IF IsPluginUnstable(plugin.path) THEN kUnauthorized
    ELSE IF plugin.type = PLUGIN_TYPE_NPAPI /\ IsGuest THEN kNPAPINotSupported
    ELSE IF status = kAllowed /\ IsGuest THEN kUnauthorized
    ELSE status

DecidePluginStatus(plugin, status) ==
    IF plugin.type = PLUGIN_TYPE_NPAPI /\ IsGuest THEN kNPAPINotSupported
    ELSE IF IsPluginUnstable(plugin.path) THEN kUnauthorized
    ELSE IF status = kAllowed /\ IsGuest THEN kUnauthorized
    ELSE status

(***************************************************************************)
(* PluginInfoMessageFilter::PluginsLoaded: the output written to the reply. *)
(***************************************************************************)
\* a default-constructed ChromeViewHostMsg_GetPluginInfo_Output; its status
\* is overwritten by FindEnabledPlugin before it is read
DefaultOutput ==
    [status |-> kAllowed, plugin |-> NoPlugin, actual_mime_type |-> ""]

\* variant: DecidePluginStatus runs whatever FindEnabledPlugin returned
PluginsLoaded_AlwaysDecide(params) ==
    LET found == FindEnabledPlugin(params.mime_type, DefaultOutput)
    IN  [found.out EXCEPT
            !.status = DecidePluginStatus(found.out.plugin, found.out.status)]

\* DecidePluginStatus runs only when FindEnabledPlugin returned true
PluginsLoadedOutput(params) ==
    LET found == FindEnabledPlugin(params.mime_type, DefaultOutput)
    IN  IF found.ret
        THEN [found.out EXCEPT
                !.status = DecidePluginStatus(found.out.plugin, found.out.status)]
        ELSE found.out

(***************************************************************************)
(* The resolution flow of one PluginInfoMessageFilter.                     *)
(***************************************************************************)
\* the objects PluginInfoMessageFilter reads: registered plugins, the
\* optional PluginServiceFilter, the crash tracker, the guest registry
EnvInit ==
    /\ plugins \in DistinctSeqs(PluginPool, MaxPlugins)
    /\ filter \in { NoFilter } \cup
           { [installed |-> TRUE, available |-> a] : a \in SUBSET Paths(plugins) }
    /\ unstable \in SUBSET Paths(plugins)
    /\ is_guest \in BOOLEAN
    /\ npapi_supported \in BOOLEAN

\* the state the constructor leaves
FilterInit ==
    /\ requests = << >>
    /\ callbacks = { }
    /\ invalidated = { }
    /\ destructed = FALSE
    /\ sent = << >>

NoReply == [mime_type |-> "", is_available |-> FALSE,
            additional_param_names |-> << >>,
            additional_param_values |-> << >>]

Init ==
    /\ EnvInit
    /\ FilterInit
    /\ internal_plugins = << >>
    /\ internal_reply = NoReply
    /\ log_lines = 0

\* OnGetPluginInfo: binds PluginsLoaded to a weak pointer and hands the
\* callback to PluginService::GetPlugins
OnGetPluginInfo(mime_type) ==
    /\ ~destructed
    /\ Len(requests) < MaxRequests
    /\ requests' = Append(requests, [mime_type |-> mime_type])
    /\ callbacks' = callbacks \cup { Len(requests) + 1 }
    /\ sent' = Append(sent, << >>)
    /\ UNCHANGED << invalidated, destructed, envVars, internalVars >>

\* variant: the callback bound with a raw pointer to the filter
BoundReceiverValid_Unretained(id) == TRUE

\* whether the weak pointer the callback of request |id| was bound to is
\* still valid
BoundReceiverValid(id) == id \notin invalidated

\* PluginsLoaded writes the output to the reply and sends it
PluginsLoaded(id) ==
    LET output == PluginsLoadedOutput(requests[id])
    IN  sent' = [sent EXCEPT ![id] = Append(@, output)]

\* the PluginService runs the callback of request |id|: PluginsLoaded runs
\* when the weak pointer is valid, and nothing runs when it is not
RunGetPluginsCallback(id) ==
    /\ id \in callbacks
    /\ callbacks' = callbacks \ { id }
    /\ IF BoundReceiverValid(id) THEN PluginsLoaded(id) ELSE sent' = sent
    /\ UNCHANGED << requests, invalidated, destructed, envVars, internalVars >>

\* OnDestruct: invalidates the weak pointers handed out so far
OnDestruct ==
    /\ ~destructed
    /\ destructed' = TRUE
    /\ invalidated' = invalidated \cup callbacks
    /\ UNCHANGED << requests, callbacks, sent, envVars, internalVars >>

Next ==
    \/ \E mime_type \in RequestedMimeTypes : OnGetPluginInfo(mime_type)
    \/ \E id \in callbacks : RunGetPluginsCallback(id)
    \/ OnDestruct

Spec == Init /\ [][Next]_vars

(***************************************************************************)
(* OnIsInternalPluginAvailableForMimeType.                                 *)
(***************************************************************************)
\* the two loops over the internal plugins and their MIME types: the
\* outputs, starting from the plugin at i and its MIME type at j
RECURSIVE ScanInternalPlugins(_, _, _, _)
ScanInternalPlugins(ps, mime_type, i, j) ==
    IF i > Len(ps)
    THEN [mime_type |-> mime_type, is_available |-> FALSE,
          additional_param_names |-> << >>,
          additional_param_values |-> << >>]
    ELSE IF j > Len(ps[i].mime_types)
         THEN ScanInternalPlugins(ps, mime_type, i + 1, 1)
         ELSE IF ps[i].mime_types[j].mime_type = mime_type
              THEN [mime_type |-> mime_type, is_available |-> TRUE,
                    additional_param_names |->
                        ps[i].mime_types[j].additional_param_names,
                    additional_param_values |->
                        ps[i].mime_types[j].additional_param_values]
              ELSE ScanInternalPlugins(ps, mime_type, i, j + 1)

\* the handler appends one line to the log file before GetInternalPlugins
\* and one after it, then scans
OnIsInternalPluginAvailableForMimeType(mime_type) ==
    /\ log_lines + 2 <= MaxLogLines
    /\ log_lines' = log_lines + 2
    /\ internal_reply' = ScanInternalPlugins(internal_plugins, mime_type, 1, 1)
    /\ UNCHANGED << internal_plugins, envVars, filterVars >>

InitInternal ==
    /\ plugins = << >>
    /\ filter = NoFilter
    /\ unstable = { }
    /\ is_guest = FALSE
    /\ npapi_supported = TRUE
    /\ FilterInit
    /\ internal_plugins \in DistinctSeqs(InternalPool, MaxInternal)
    /\ internal_reply = NoReply
    /\ log_lines = 0

NextInternal ==
    \E mime_type \in InternalMimeTypes :
        OnIsInternalPluginAvailableForMimeType(mime_type)

SpecInternal == InitInternal /\ [][NextInternal]_vars

(***************************************************************************)
(* Properties.                                                             *)
(***************************************************************************)
\* the requests a reply was sent for, and the verdict sent
Replied == { id \in 1..Len(requests) : sent[id] # << >> }
Verdict(id) == sent[id][1]
Candidates(id) == GetPluginInfoArray(requests[id].mime_type, TRUE)
PassesFilter(plugin) == ~filter.installed \/ plugin.path \in filter.available
Present(plugin) == plugin # NoPlugin
\* the indices of the candidates |cs| that pass the availability filter
Passing(cs) == { k \in 1..Len(cs) : PassesFilter(cs[k]) }

\* C1 as stated: a verdict with status allowed has a plugin that passed the
\* availability filter, and a verdict with status not_found or
\* npapi_not_supported has no plugin.
C1_Original ==
    \A id \in Replied :
        LET v == Verdict(id)
        IN  /\ v.status = kAllowed =>
                  Present(v.plugin) /\ PassesFilter(v.plugin)
            /\ v.status \in { kNotFound, kNPAPINotSupported } =>
                  ~Present(v.plugin)

\* C1 amended: a verdict with status allowed has a plugin that passed the
\* availability filter; a verdict with status not_found has no plugin; a
\* verdict with status npapi_not_supported carries the chosen plugin, which
\* is of the NPAPI type, passed the filter and was requested by a guest.
C1_VerdictInvariant ==
    \A id \in Replied :
        LET v == Verdict(id)
        IN  /\ v.status = kAllowed =>
                  Present(v.plugin) /\ PassesFilter(v.plugin)
            /\ v.status = kNotFound => ~Present(v.plugin)
            /\ v.status = kNPAPINotSupported =>
                  /\ Present(v.plugin)
                  /\ v.plugin.type = PLUGIN_TYPE_NPAPI
                  /\ PassesFilter(v.plugin)
                  /\ is_guest

C1_Witness ==
    /\ \E id \in Replied : Verdict(id).status = kAllowed
    /\ \E id \in Replied : Verdict(id).status = kNotFound
    /\ filter.installed

\* C2 as stated: when the requester is a guest and the chosen plugin is of
\* the NPAPI type, the status is unauthorized.
C2_Original ==
    \A id \in Replied :
        LET v == Verdict(id)
        IN  (is_guest /\ Present(v.plugin) /\ v.plugin.type = PLUGIN_TYPE_NPAPI)
            => v.status = kUnauthorized

\* C2 amended: when the requester is a guest and the chosen plugin is of the
\* NPAPI type, the status is npapi_not_supported if the chosen plugin passed
\* the availability filter, whether or not it is unstable, and disabled if no
\* candidate passed.
C2_GuestNPAPI ==
    \A id \in Replied :
        LET v == Verdict(id)
        IN  (is_guest /\ Present(v.plugin) /\ v.plugin.type = PLUGIN_TYPE_NPAPI)
            => v.status =
                  IF Passing(Candidates(id).matching_plugins) # { }
                  THEN kNPAPINotSupported
                  ELSE kDisabled

C2_Witness ==
    \E id \in Replied :
        /\ is_guest
        /\ Verdict(id).plugin.type = PLUGIN_TYPE_NPAPI
        /\ Passing(Candidates(id).matching_plugins) # { }
        /\ Verdict(id).plugin.path \in unstable
        /\ Verdict(id).status = kNPAPINotSupported

\* C3 as stated: when the chosen plugin is flagged unstable, the status is
\* unauthorized.
C3_Original ==
    \A id \in Replied :
        LET v == Verdict(id)
        IN  (Present(v.plugin) /\ v.plugin.path \in unstable)
            => v.status = kUnauthorized

\* C3 amended: when the chosen plugin is flagged unstable, passed the
\* availability filter, and is not an NPAPI plugin requested by a guest, the
\* status is unauthorized.
C3_Unstable ==
    \A id \in Replied :
        LET v == Verdict(id)
        IN  ( /\ Present(v.plugin)
              /\ v.plugin.path \in unstable
              /\ PassesFilter(v.plugin)
              /\ ~(is_guest /\ v.plugin.type = PLUGIN_TYPE_NPAPI) )
            => v.status = kUnauthorized

C3_Witness ==
    \E id \in Replied :
        /\ ~is_guest
        /\ Verdict(id).plugin.path \in unstable
        /\ PassesFilter(Verdict(id).plugin)
        /\ Verdict(id).status = kUnauthorized

\* C4: when there are candidates and the availability filter rejects all of
\* them, the verdict is the first candidate, with the MIME type matched for
\* it, and status disabled.
C4_AllRejected ==
    \A id \in Replied :
        LET v == Verdict(id)
            c == Candidates(id)
        IN  (c.matching_plugins # << >> /\ Passing(c.matching_plugins) = { })
            => /\ v.plugin = c.matching_plugins[1]
               /\ v.actual_mime_type = c.mime_types[1]
               /\ v.status = kDisabled

C4_Witness ==
    \E id \in Replied :
        /\ Len(Candidates(id).matching_plugins) >= 2
        /\ Passing(Candidates(id).matching_plugins) = { }
        /\ Verdict(id).status = kDisabled

\* C5: when some candidate passes the availability filter (all do when no
\* filter is installed), the verdict is the passing candidate of lowest
\* index with the MIME type matched at that index, and its status is allowed
\* when the requester is no guest and the plugin is not unstable.
C5_FirstAvailable ==
    \A id \in Replied :
        LET v == Verdict(id)
            c == Candidates(id)
            passing == Passing(c.matching_plugins)
        IN  passing # { } =>
                LET k == CHOOSE k \in passing : \A l \in passing : k <= l
                IN  /\ v.plugin = c.matching_plugins[k]
                    /\ v.actual_mime_type = c.mime_types[k]
                    /\ (~is_guest /\ v.plugin.path \notin unstable)
                          => v.status = kAllowed

C5_Witness ==
    \E id \in Replied :
        /\ Passing(Candidates(id).matching_plugins) = { 2 }
        /\ ~is_guest
        /\ Verdict(id).plugin = Candidates(id).matching_plugins[2]
        /\ Verdict(id).status = kAllowed

\* C6: when no plugin matches the requested MIME type, the verdict is
\* not_found with no plugin and an empty actual MIME type, whatever the
\* guest state and the instability flags.
C6_NotFound ==
    \A id \in Replied :
        Candidates(id).matching_plugins = << >> =>
            /\ Verdict(id).status = kNotFound
            /\ Verdict(id).plugin = NoPlugin
            /\ Verdict(id).actual_mime_type = ""

C6_Witness ==
    \E id \in Replied :
        /\ Candidates(id).matching_plugins = << >>
        /\ is_guest
        /\ plugins # << >>
        /\ Verdict(id).status = kNotFound

\* C7: a request whose callback has run has exactly one reply if its weak
\* pointer was valid and none if OnDestruct invalidated it first; a request
\* whose callback has not run has no reply; and running an invalidated
\* callback changes neither the requests, nor the replies, nor the filter.
C7_RepliesSent ==
    \A id \in 1..Len(requests) :
        Len(sent[id]) =
            IF id \in callbacks \/ id \in invalidated THEN 0 ELSE 1

C7_CancelledIsNoOp ==
    \A id \in callbacks :
        (id \in invalidated /\ id \notin callbacks') =>
            UNCHANGED << requests, sent, invalidated, destructed >>

C7_ExactlyOnceOrNever == []C7_RepliesSent /\ [][C7_CancelledIsNoOp]_vars

C7_Witness ==
    /\ \E id \in Replied : id \notin invalidated /\ Len(sent[id]) = 1
    /\ \E id \in 1..Len(requests) :
          id \in invalidated /\ id \notin callbacks /\ sent[id] = << >>

\* C8: a guest with at least one candidate never gets status allowed; when
\* the chosen plugin passed the availability filter, is not of the NPAPI
\* type and is not unstable, the status is unauthorized.
C8_GuestNeverAllowed ==
    \A id \in Replied :
        LET v == Verdict(id)
        IN  (is_guest /\ Candidates(id).matching_plugins # << >>) =>
                /\ v.status # kAllowed
                /\ ( /\ PassesFilter(v.plugin)
                     /\ v.plugin.type # PLUGIN_TYPE_NPAPI
                     /\ v.plugin.path \notin unstable )
                   => v.status = kUnauthorized

C8_Witness ==
    \E id \in Replied :
        /\ is_guest
        /\ PassesFilter(Verdict(id).plugin)
        /\ Verdict(id).plugin.type = PLUGIN_TYPE_PEPPER_OUT_OF_PROCESS
        /\ Verdict(id).plugin.path \notin unstable
        /\ Verdict(id).status = kUnauthorized

\* the empty-candidate case C9 is about: no NPAPI support and a requested
\* MIME type of kPepperPluginMimeTypes
C9_Case(id) ==
    /\ ~npapi_supported
    /\ requests[id].mime_type \in kPepperPluginMimeTypes
    /\ Candidates(id).matching_plugins = << >>

\* C9 as stated: with no candidates, no NPAPI support and a requested MIME
\* type of kPepperPluginMimeTypes, the verdict is npapi_not_supported with
\* no plugin.
C9_Original ==
    \A id \in Replied :
        C9_Case(id) =>
            /\ Verdict(id).status = kNPAPINotSupported
            /\ Verdict(id).plugin = NoPlugin

\* C9 amended: with no candidates, no NPAPI support and a requested MIME
\* type of kPepperPluginMimeTypes, the verdict is not_found with no plugin;
\* npapi_not_supported is never the verdict when there are no candidates.
C9_EmptyIsNotFound ==
    \A id \in Replied :
        /\ Verdict(id).status = kNPAPINotSupported =>
              Candidates(id).matching_plugins # << >>
        /\ C9_Case(id) =>
              Verdict(id).status = kNotFound /\ Verdict(id).plugin = NoPlugin

C9_Witness ==
    \E id \in Replied : C9_Case(id) /\ Verdict(id).status = kNotFound

\* C10 as stated: a call of OnIsInternalPluginAvailableForMimeType changes
\* nothing but its three outputs; in particular the log file stays as it was.
C10_SideEffectFree ==
    [][UNCHANGED << internal_plugins, log_lines, envVars, filterVars >>]_vars

====
